---- MODULE Spec2Model ----
(***************************************************************************)
(* A model of src/project.ts: the Project class (the "Orchestrator"), its  *)
(* init() and addToProject() methods, the field index and the status       *)
(* resolver, running against a remote project board.                       *)
(*                                                                         *)
(* addToProject() is asynchronous: every `await` is a point where the      *)
(* remote board is read or written and where other activity can happen.    *)
(* Each action below is one remote operation together with the code that   *)
(* runs after it, up to the next await.                                    *)
(***************************************************************************)
EXTENDS Integers, Sequences, FiniteSets, TLC

(***************************************************************************)
(* Bounds of the model.                                                    *)
(***************************************************************************)
\* Board-item ids the remote board can hand out (1..MaxIds).
MaxIds == 3
\* Longest schema (number of raw field entries) the remote returns.
MaxFields == 1
\* Number of calls (init() and addToProject() together) a client makes
\* on the Project object.
MaxOps == 3
\* The same, where other users change the board's membership meanwhile:
\* the client calls init(), then one addToProject().
MaxOpsEnv == 2
\* Number of changes other users make to the board's membership.
MaxEnv == 2
\* Longest sequence of raw field entries given to the field index builder.
MaxEntries == 3

(***************************************************************************)
(* Values.                                                                 *)
(***************************************************************************)
\* JavaScript `undefined` for string-valued things (projectID, entry.id).
Undefined == "undefined"
\* JavaScript `undefined` for a board-item id (getProjectItem found nothing,
\* addProjectItem returned nothing).  Real board-item ids are 1..MaxIds.
UndefinedID == 0
\* The Status of a board item on which no field value has been set.
NoStatus == [field |-> Undefined, option |-> Undefined]

\* The invocation slots: activations of addToProject that can be in progress.
Slots == {1, 2}
\* The issues / pull requests (their own ids, not board-item ids).
Items == {"i1", "i2"}
\* The id of the one remote board.
BoardID == "PVT_1"

\* Strings whose content matters (option names, status labels) are tuples
\* of characters, so that toLowerCase and includes are computed.
Lower(c) ==
    CASE c = "T" -> "t"
      [] c = "D" -> "d"
      [] c = "O" -> "o"
      [] c = "N" -> "n"
      [] c = "E" -> "e"
      [] OTHER -> c

toLowerCase(s) == [i \in 1..Len(s) |-> Lower(s[i])]

\* includes in which the empty string occurs in no string.
includes_NotTheEmptyString(s, sub) ==
    /\ sub # << >>
    /\ \E k \in 0..(Len(s) - Len(sub)) :
          \A j \in 1..Len(sub) : s[k + j] = sub[j]

\* String.prototype.includes: sub occurs in s at some offset; the empty
\* string occurs in every string.
includes(s, sub) ==
    \E k \in 0..(Len(s) - Len(sub)) :
        \A j \in 1..Len(sub) : s[k + j] = sub[j]

Todo == <<"T", "o", "d", "o">>
Done == <<"D", "o", "n", "e">>

\* The status labels a caller may configure.
Labels == { <<"d", "o">>, <<"D", "O", "N", "E">> }

\* DefaultStatus values given to the constructor.
DefaultStatusConfigs == [issues : Labels, prs : Labels]

\* Raw field entries the remote schema query can return.  An entry of a
\* field kind other than single-select carries no id.
OptTodo == [id |-> "o1", name |-> Todo]
OptDone == [id |-> "o2", name |-> Done]
FieldEntries ==
    { [id |-> "F1", name |-> "Status", options |-> <<OptTodo>>],
      [id |-> "F1", name |-> "Status", options |-> <<OptTodo, OptDone>>],
      [id |-> Undefined, name |-> "Status", options |-> <<OptDone>>] }

SeqsUpTo(S, n) == UNION { [1..k -> S] : k \in 0..n }

\* The schemas (prjv2.fields.nodes) the remote board can have.
Schemas == SeqsUpTo(FieldEntries, MaxFields)

\* Status labels among which is the empty string, and boards whose Status
\* field has no option, one option, or two.
LabelsWithEmpty == { << >>, <<"D", "O", "N", "E">> }
ConfigsWithEmpty == [issues : LabelsWithEmpty, prs : LabelsWithEmpty]
SchemasForEmpty ==
    { << [id |-> "F1", name |-> "Status", options |-> opts] >> :
        opts \in { << >>, <<OptDone>>, <<OptTodo, OptDone>> } }

\* The raw field entries given to the field index builder: two names, each
\* under two ids and without an id.
FoldEntries ==
    { [id |-> "F1", name |-> "Status", options |-> <<OptTodo>>],
      [id |-> "F2", name |-> "Status", options |-> <<OptDone>>],
      [id |-> Undefined, name |-> "Status", options |-> <<OptTodo>>],
      [id |-> "F1", name |-> "Priority", options |-> <<OptTodo>>],
      [id |-> "F2", name |-> "Priority", options |-> <<OptDone>>],
      [id |-> Undefined, name |-> "Priority", options |-> <<OptTodo>>] }

FoldSchemas == SeqsUpTo(FoldEntries, MaxEntries)

(***************************************************************************)
(* parseURL: the regular expression                                        *)
(*   /\/(?<type>orgs|users)\/(?<owner>[^/]+)\/projects\/(?<prjNumber>\d+)/ *)
(* matched as String.prototype.match does: at the leftmost position where  *)
(* it matches, each group taking the longest run it can.  A url is a tuple *)
(* of characters.                                                          *)
(***************************************************************************)
LitOrgs == <<"o", "r", "g", "s">>
LitUsers == <<"u", "s", "e", "r", "s">>
LitProjects == <<"/", "p", "r", "o", "j", "e", "c", "t", "s", "/">>

\* \d
IsDigit(c) == c \in {"0", "1", "2", "3", "4", "5", "6", "7", "8", "9"}
\* [^/]
NotSlash(c) == c # "/"

DigitVal(c) ==
    CASE c = "0" -> 0 [] c = "1" -> 1 [] c = "2" -> 2 [] c = "3" -> 3
      [] c = "4" -> 4 [] c = "5" -> 5 [] c = "6" -> 6 [] c = "7" -> 7
      [] c = "8" -> 8 [] c = "9" -> 9

\* parseInt of a string of decimal digits.
RECURSIVE parseInt(_)
parseInt(ds) ==
    IF ds = << >> THEN 0
    ELSE 10 * parseInt(SubSeq(ds, 1, Len(ds) - 1)) + DigitVal(ds[Len(ds)])

\* The literal `lit` stands in s at position k.
StartsWith(s, k, lit) ==
    /\ k + Len(lit) - 1 <= Len(s)
    /\ \A j \in 1..Len(lit) : s[k + j - 1] = lit[j]

\* [^/]+ and \d+ are greedy: the last position of the longest run, from
\* position k on, of characters other than "/", and of digits; k - 1 when
\* the run is empty.
OwnerEnd(s, k) ==
    CHOOSE e \in (k - 1)..Len(s) :
        /\ \A j \in k..e : NotSlash(s[j])
        /\ e = Len(s) \/ ~NotSlash(s[e + 1])

DigitsEnd(s, k) ==
    CHOOSE e \in (k - 1)..Len(s) :
        /\ \A j \in k..e : IsDigit(s[j])
        /\ e = Len(s) \/ ~IsDigit(s[e + 1])

NoMatch == [ok |-> FALSE]

\* The match attempted at position k of s.
matchAt(s, k) ==
    LET typeLit == IF StartsWith(s, k + 1, LitOrgs) THEN LitOrgs ELSE LitUsers
        a == k + 1 + Len(typeLit)
        ownerEnd == OwnerEnd(s, a + 1)
        p == ownerEnd + 1
        d == p + Len(LitProjects)
        digitsEnd == DigitsEnd(s, d)
    IN IF /\ StartsWith(s, k, <<"/">>)
          /\ StartsWith(s, k + 1, typeLit)
          /\ StartsWith(s, a, <<"/">>)
          /\ ownerEnd >= a + 1
          /\ StartsWith(s, p, LitProjects)
          /\ digitsEnd >= d
       THEN [ok |-> TRUE, type |-> typeLit,
             owner |-> SubSeq(s, a + 1, ownerEnd),
             prjNumber |-> SubSeq(s, d, digitsEnd)]
       ELSE NoMatch

\* url.match(regex): the leftmost match; NoMatch stands for null.
match(s) ==
    LET hits == { k \in 1..Len(s) : matchAt(s, k).ok }
    IN IF hits = {} THEN NoMatch
       ELSE matchAt(s, CHOOSE k \in hits : \A j \in hits : k <= j)

\* parseURL that reads the owner kind the wrong way round.
parseURL_IsOrgInverted(u) ==
    LET m == match(u)
    IN IF ~m.ok THEN [kind |-> "throw"]
       ELSE [kind |-> "ok",
             desc |-> [owner |-> m.owner,
                       projectNumber |-> parseInt(m.prjNumber),
                       isOrg |-> (m.type = LitUsers)]]

\* kind "throw": the Error of line 48.
parseURL(u) ==
    LET m == match(u)
    IN IF ~m.ok THEN [kind |-> "throw"]
       ELSE [kind |-> "ok",
             desc |-> [owner |-> m.owner,
                       projectNumber |-> parseInt(m.prjNumber),
                       isOrg |-> (m.type = LitOrgs)]]

\* The urls of the board the client works on: one of an organization, one
\* of a user.
OrgURL ==
    <<"/">> \o LitOrgs \o <<"/", "a">> \o LitProjects \o <<"7">>
UserURL ==
    <<"h", ":", "/", "/", "g", "/">> \o LitUsers \o <<"/", "a">>
        \o LitProjects \o <<"1", "2">>
ProjectURLs == { OrgURL, UserURL }

\* What precedes the path in a url.
UrlPrefixes ==
    { << >>,
      <<"h", ":", "/", "/", "g">> }
\* The segment that says whose board it is, and segments that say nothing.
UrlKeywords ==
    { <<"/", "o", "r", "g", "s">>,
      <<"/", "u", "s", "e", "r", "s">>,
      <<"/", "t", "e", "a", "m", "s">>,
      <<"/", "o", "r", "g">>,
      <<"/", "O", "r", "g", "s">> }
\* The owner segment: a name, nothing, or a name that is a keyword.
UrlOwners ==
    { <<"/", "a">>,
      <<"/">>,
      <<"/", "u", "s", "e", "r", "s">> }
\* What stands between the owner and the number.
UrlMiddles ==
    { <<"/", "p", "r", "o", "j", "e", "c", "t", "s", "/">>,
      <<"/", "p", "r", "o", "j", "e", "c", "t", "s">>,
      <<"/", "p", "r", "o", "j", "e", "c", "t", "/">> }
\* The number: digits, nothing, or something else.
UrlNumbers ==
    { <<"7">>,
      <<"1", "2">>,
      <<"0", "7">>,
      << >>,
      <<"x">>,
      <<"7", "x">> }
\* What follows the number.
UrlSuffixes ==
    { << >>,
      <<"/", "u", "s", "e", "r", "s", "/", "b", "/", "p", "r", "o", "j", "e", "c", "t", "s", "/", "3">> }

\* The urls given to parseURL.
URLs ==
    { p \o k \o o \o m \o n \o x :
        p \in UrlPrefixes, k \in UrlKeywords, o \in UrlOwners,
        m \in UrlMiddles, n \in UrlNumbers, x \in UrlSuffixes }

(***************************************************************************)
(* State.                                                                  *)
(***************************************************************************)
VARIABLES
    \* --- the remote board ---
    schema,         \* its field entries, as the schema query returns them
    board,          \* its membership records: [id, item, status]
    nextId,         \* the next board-item id the remote hands out
    \* --- the Project object ---
    url,            \* the url given to the constructor
    parsed,         \* what parseURL(url) gave: a ProjectDesc, or the Error
    desc,           \* this.desc: [owner, projectNumber, isOrg]
    defaultStatus,  \* this.defaultStatus: [issues, prs]
    projectID,      \* this.projectID
    fields,         \* this.fields: name -> field entry
    \* --- activations of addToProject ---
    inv,            \* per slot: position, locals, and what the call did
    \* --- history ---
    prev,           \* per slot: summary of the call completed before this one
    lastInit,       \* the init() call that has just returned: the branches
                    \* of the response, and the outcome
    everInit,       \* some init() call has completed successfully
    initSince,      \* init() calls since the last addToProject() call began
    calls,          \* addToProject() calls made so far
    inits,          \* init() calls made so far
    envOps          \* membership changes other users have made so far

vars == << schema, board, nextId, url, parsed, desc, defaultStatus, projectID,
           fields, inv, prev, lastInit, everInit, initSince, calls, inits,
           envOps >>

remoteVars == << schema, board, nextId, envOps >>
ctorVars == << url, parsed, desc, defaultStatus >>
objectVars == << ctorVars, projectID, fields >>
initVars == << everInit, inits >>

(***************************************************************************)
(* The field index (initFields) and the status resolver (getStatusField).  *)
(***************************************************************************)
\* Put that keeps the entry a name already has.
Put_KeepsFirst(f, name, entry) ==
    [n \in (DOMAIN f) \cup {name} |->
        IF n \in DOMAIN f THEN f[n] ELSE entry]

\* this.fields[name] = entry
Put(f, name, entry) ==
    [n \in (DOMAIN f) \cup {name} |-> IF n = name THEN entry ELSE f[n]]

\* An object with no keys.
EmptyFields == [n \in {} |-> n]

\* initFields without the check of entry.id (line 154).
RECURSIVE initFields_KeepsEntriesWithoutId(_, _)
initFields_KeepsEntriesWithoutId(f, entries) ==
    IF entries = << >> THEN f
    ELSE LET entry == Head(entries)
         IN initFields_KeepsEntriesWithoutId(Put(f, entry.name, entry),
                                             Tail(entries))

\* Lines 153-158: the loop over the entries, on this.fields as it is.
RECURSIVE initFields(_, _)
initFields(f, entries) ==
    IF entries = << >> THEN f
    ELSE LET entry == Head(entries)
         IN initFields(IF entry.id = Undefined THEN f
                       ELSE Put(f, entry.name, entry),
                       Tail(entries))

\* findOption that takes the last option that matches.
findOption_LastMatch(options, wanted) ==
    LET hits == { i \in 1..Len(options) :
                    includes(toLowerCase(options[i].name), toLowerCase(wanted)) }
    IN IF hits = {} THEN 0
       ELSE CHOOSE i \in hits : \A j \in hits : j <= i

\* Array.prototype.find over the options: the first one whose lower-cased
\* name includes the lower-cased wanted label; 0 when there is none.
findOption(options, wanted) ==
    LET hits == { i \in 1..Len(options) :
                    includes(toLowerCase(options[i].name), toLowerCase(wanted)) }
    IN IF hits = {} THEN 0
       ELSE CHOOSE i \in hits : \A j \in hits : i <= j

\* getStatusField without the check of line 168: a missing Status field
\* is reported like a missing option.
getStatusField_NoFieldCheck(f, wanted) ==
    IF "Status" \notin DOMAIN f
    THEN [kind |-> "undefined"]
    ELSE LET statusField == f["Status"]
             i == findOption(statusField.options, wanted)
         IN IF i = 0 THEN [kind |-> "undefined"]
            ELSE [kind |-> "found",
                  fieldID |-> statusField.id,
                  value |-> [id |-> statusField.options[i].id,
                             value |-> statusField.options[i].name]]

\* kind "throw": the Error of line 169; kind "undefined": line 178.
getStatusField(f, wanted) ==
    IF "Status" \notin DOMAIN f
    THEN [kind |-> "throw"]
    ELSE LET statusField == f["Status"]
             i == findOption(statusField.options, wanted)
         IN IF i = 0 THEN [kind |-> "undefined"]
            ELSE [kind |-> "found",
                  fieldID |-> statusField.id,
                  value |-> [id |-> statusField.options[i].id,
                             value |-> statusField.options[i].name]]

\* wantedStatus with the two labels taken the wrong way round.
wantedStatus_Swapped(ds, isPullRequest) ==
    IF isPullRequest THEN ds.issues ELSE ds.prs

\* const wantedStatus = isPullRequest ? prs : issues
wantedStatus(ds, isPullRequest) ==
    IF isPullRequest THEN ds.prs ELSE ds.issues

(***************************************************************************)
(* init(): the check of the response's owner branch, and what is stored.   *)
(* resp says which branches the response carries.                          *)
(***************************************************************************)
\* initResult that takes whichever branch the response carries, and fails
\* only when it carries none.
initResult_AnyBranch(d, resp, pid, f, nodes) ==
    IF ~resp.organization /\ ~resp.user
    THEN [outcome |-> "BoardNotFound", projectID |-> pid, fields |-> f]
    ELSE [outcome |-> "ok", projectID |-> BoardID,
          fields |-> initFields(f, nodes)]

initResult(d, resp, pid, f, nodes) ==
    IF d.isOrg /\ ~resp.organization
    THEN [outcome |-> "BoardNotFound", projectID |-> pid, fields |-> f]
    ELSE IF ~d.isOrg /\ ~resp.user
    THEN [outcome |-> "BoardNotFound", projectID |-> pid, fields |-> f]
    ELSE [outcome |-> "ok", projectID |-> BoardID,
          fields |-> initFields(f, nodes)]

(***************************************************************************)
(* The three board primitives of ./helpers, by their contracts.            *)
(***************************************************************************)
RecordsOf(b, itemID) == { r \in b : r.item = itemID }

\* lookupMembership: the board-item id of a membership record of the item,
\* or undefined when it has none.
getProjectItem(b, itemID) ==
    IF RecordsOf(b, itemID) = {} THEN {UndefinedID}
    ELSE { r.id : r \in RecordsOf(b, itemID) }

\* addToBoard: the board with a new membership record for the item.
addProjectItem(b, itemID, id) ==
    b \cup { [id |-> id, item |-> itemID, status |-> NoStatus] }

\* setFieldValue: the board with the field value set on the board item.
updateIssueStatus(b, prjItemID, fieldID, optionID) ==
    { IF r.id = prjItemID
      THEN [r EXCEPT !.status = [field |-> fieldID, option |-> optionID]]
      ELSE r : r \in b }

(***************************************************************************)
(* addToProject(): the code between two awaits, as a function from the     *)
(* activation's record to its next record.                                 *)
(***************************************************************************)
NoNewStatus == [kind |-> "none"]
NoCall == "none"

\* An activation that has not run: the slot's initial content.
IdleInv ==
    [pc |-> "idle", itemID |-> NoCall, isPullRequest |-> FALSE,
     item |-> UndefinedID, prjItemID |-> UndefinedID,
     newStatus |-> NoNewStatus, wasMember |-> FALSE,
     nLookup |-> 0, nAdd |-> 0, nSet |-> 0,
     outcome |-> "none", ret |-> UndefinedID,
     \* history: init() calls between the previous call and this one, and
     \* whether the remote schema had the option the call did not find
     reinit |-> "none", remoteHad |-> FALSE]

\* throw new Error(...): the activation ends with the error.
Throw(c, kind) == [c EXCEPT !.pc = "idle", !.outcome = kind]

\* startCall without the check of this.projectID.
startCall_NoCheck(itemID, isPullRequest, pid) ==
    [IdleInv EXCEPT !.itemID = itemID, !.isPullRequest = isPullRequest,
                    !.pc = "lookup", !.nLookup = 1]

\* Lines 202-208: the check of this.projectID, then the first lookup is
\* issued.
startCall(itemID, isPullRequest, pid) ==
    LET c == [IdleInv EXCEPT !.itemID = itemID,
                             !.isPullRequest = isPullRequest]
    IN IF pid = Undefined
       THEN Throw(c, "NotInitialized")
       ELSE [c EXCEPT !.pc = "lookup", !.nLookup = 1]

\* Lines 237-255: pick the label, resolve it, issue the status update.
setStatus(c, f, ds) ==
    LET newStatus == getStatusField(f, wantedStatus(ds, c.isPullRequest))
    IN IF newStatus.kind = "throw" THEN Throw(c, "MissingStatusField")
       ELSE IF newStatus.kind = "undefined"
       THEN Throw(c, "StatusValueNotFound")
       ELSE [c EXCEPT !.pc = "update", !.newStatus = newStatus,
                      !.nSet = @ + 1]

\* afterLookup that resolves the label before it adds the item, and adds
\* nothing when no option matches.
afterLookup_ResolvesBeforeAdd(c, found, f, ds) ==
    LET c1 == [c EXCEPT !.item = found, !.wasMember = (found # UndefinedID)]
    IN IF found # UndefinedID THEN setStatus(c1, f, ds)
       ELSE IF getStatusField_NoFieldCheck(
                   f, wantedStatus(ds, c.isPullRequest)).kind = "undefined"
                 /\ "Status" \in DOMAIN f
       THEN Throw(c1, "StatusValueNotFound")
       ELSE [c1 EXCEPT !.pc = "add", !.nAdd = @ + 1]

\* afterLookup that looks the item up once more when it is on the board.
afterLookup_LooksUpAgain(c, found, f, ds) ==
    LET c1 == [c EXCEPT !.item = found, !.wasMember = (found # UndefinedID)]
    IN IF found = UndefinedID
       THEN [c1 EXCEPT !.pc = "add", !.nAdd = @ + 1]
       ELSE [c1 EXCEPT !.pc = "relookup", !.prjItemID = found,
                       !.nLookup = @ + 1]

\* afterLookup that adds the item whatever the lookup answered.
afterLookup_AlwaysAdds(c, found, f, ds) ==
    [c EXCEPT !.item = found, !.wasMember = (found # UndefinedID),
              !.pc = "add", !.nAdd = @ + 1]

\* Lines 208-213 and 233-235: the first lookup has answered `found`.
afterLookup(c, found, f, ds) ==
    LET c1 == [c EXCEPT !.item = found, !.wasMember = (found # UndefinedID)]
    IN IF found = UndefinedID
       THEN [c1 EXCEPT !.pc = "add", !.nAdd = @ + 1]
       ELSE setStatus(c1, f, ds)

\* afterAdd without the check of the id the add returned (line 219).
afterAdd_NoIdCheck(c, ok, id) ==
    IF ~ok THEN Throw(c, "AddFailed")
    ELSE [c EXCEPT !.pc = "relookup", !.prjItemID = id, !.nLookup = @ + 1]

\* afterAdd that issues the add mutation again when it failed.
afterAdd_Retries(c, ok, id) ==
    IF ~ok THEN [c EXCEPT !.nAdd = @ + 1]
    ELSE IF id = UndefinedID THEN Throw(c, "AddReturnedNoID")
    ELSE [c EXCEPT !.pc = "relookup", !.prjItemID = id, !.nLookup = @ + 1]

\* Lines 213-223: the add mutation has answered: it threw (ok = FALSE) or
\* returned `id`; then the second lookup is issued.
afterAdd(c, ok, id) ==
    IF ~ok THEN Throw(c, "AddFailed")
    ELSE IF id = UndefinedID THEN Throw(c, "AddReturnedNoID")
    ELSE [c EXCEPT !.pc = "relookup", !.prjItemID = id, !.nLookup = @ + 1]

\* afterReLookup without the comparison of the two ids (line 228).
afterReLookup_NoIdCheck(c, found, f, ds) ==
    LET c1 == [c EXCEPT !.item = found]
    IN IF found = UndefinedID
       THEN Throw(c1, "MembershipNotFoundAfterAdd")
       ELSE setStatus(c1, f, ds)

\* Lines 223-232, then 237-255: the second lookup has answered `found`.
afterReLookup(c, found, f, ds) ==
    LET c1 == [c EXCEPT !.item = found]
    IN IF found = UndefinedID
       THEN Throw(c1, "MembershipNotFoundAfterAdd")
       ELSE IF found # c.prjItemID
       THEN Throw(c1, "MembershipIDMismatch")
       ELSE setStatus(c1, f, ds)

\* afterUpdate that returns the id the add mutation gave (prjItemID)
\* instead of item.prjItemID.
afterUpdate_ReturnsAddId(c, ok) ==
    IF ~ok THEN Throw(c, "StatusUpdateFailed")
    ELSE [c EXCEPT !.pc = "idle", !.outcome = "ok", !.ret = c.prjItemID]

\* Lines 249-258: the status update has answered.
afterUpdate(c, ok) ==
    IF ~ok THEN Throw(c, "StatusUpdateFailed")
    ELSE [c EXCEPT !.pc = "idle", !.outcome = "ok", !.ret = c.item]

\* What is kept of a call once the next one begins in its slot.
Summary(c) ==
    [itemID |-> c.itemID, isPullRequest |-> c.isPullRequest,
     outcome |-> c.outcome, ret |-> c.ret, nAdd |-> c.nAdd,
     wasMember |-> c.wasMember, remoteHad |-> c.remoteHad]

(***************************************************************************)
(* What the remote board itself says, independently of the Project         *)
(* object's cache: used to record history and to state properties.         *)
(***************************************************************************)
\* The option's name contains the label, ignoring case.
Matches(option, label) ==
    includes(toLowerCase(option.name), toLowerCase(label))

\* The positions of the entries of `nodes` that describe a Status field.
StatusEntries(nodes) ==
    { i \in 1..Len(nodes) :
        nodes[i].name = "Status" /\ nodes[i].id # Undefined }

\* The board's schema has a Status field, and (its last description) has
\* an option for the label.
RemoteResolves(nodes, label) ==
    /\ StatusEntries(nodes) # {}
    /\ LET last == CHOOSE i \in StatusEntries(nodes) :
                      \A j \in StatusEntries(nodes) : j <= i
       IN \E k \in 1..Len(nodes[last].options) :
              Matches(nodes[last].options[k], label)

\* The label the caller configured for the item's kind.
LabelFor(ds, isPullRequest) ==
    IF isPullRequest THEN ds.prs ELSE ds.issues

\* History kept with an activation that fails with StatusValueNotFound:
\* whether the board's schema had an option for the label at that moment.
Noting(c, nodes, ds) ==
    IF c.outcome = "StatusValueNotFound"
    THEN [c EXCEPT !.remoteHad =
                       RemoteResolves(nodes, LabelFor(ds, c.isPullRequest))]
    ELSE c

(***************************************************************************)
(* Initial state: the Project object as its constructor leaves it, and a   *)
(* remote board with any schema and no members.                            *)
(***************************************************************************)
NoSummary == Summary(IdleInv)
NoInit == [organization |-> FALSE, user |-> FALSE, outcome |-> "none"]

\* new Project(token, u, ds), for a board whose schema is one of `schemas`.
InitWith(schemas, urls, configs) ==
    /\ schema \in schemas
    /\ board = {}
    /\ nextId = 1
    /\ url \in urls
    /\ parsed = parseURL(url)
    /\ desc = parsed.desc
    /\ defaultStatus \in configs
    /\ projectID = Undefined
    /\ fields = EmptyFields
    /\ inv = [s \in Slots |-> IdleInv]
    /\ prev = [s \in Slots |-> NoSummary]
    /\ lastInit = NoInit
    /\ everInit = FALSE
    /\ initSince = "none"
    /\ calls = 0
    /\ inits = 0
    /\ envOps = 0

Init == InitWith(Schemas, ProjectURLs, DefaultStatusConfigs)

\* Before the constructor runs on a url: nothing is parsed, no object is.
NotParsed == [kind |-> "none"]
NoDesc == [owner |-> << >>, projectNumber |-> 0, isOrg |-> FALSE]

InitURL ==
    /\ url \in URLs
    /\ parsed = NotParsed
    /\ desc = NoDesc
    /\ schema = << >>
    /\ board = {}
    /\ nextId = 1
    /\ defaultStatus = [issues |-> Todo, prs |-> Done]
    /\ projectID = Undefined
    /\ fields = EmptyFields
    /\ inv = [s \in Slots |-> IdleInv]
    /\ prev = [s \in Slots |-> NoSummary]
    /\ lastInit = NoInit
    /\ everInit = FALSE
    /\ initSince = "none"
    /\ calls = 0
    /\ inits = 0
    /\ envOps = 0

\* Line 70: this.desc = parseURL(url); when parseURL throws, so does the
\* constructor.
Construct ==
    /\ parsed = NotParsed
    /\ parsed' = parseURL(url)
    /\ desc' = IF parsed'.kind = "ok" THEN parsed'.desc ELSE desc
    /\ UNCHANGED << remoteVars, url, defaultStatus, projectID, fields, inv,
                    prev, lastInit, initVars, initSince, calls >>

AllIdle == \A s \in Slots : inv[s].pc = "idle"

(***************************************************************************)
(* init(): one schema query, then lines 124-144.                           *)
(***************************************************************************)
InitCall(maxOps) ==
    /\ AllIdle
    /\ inits + calls < maxOps
    /\ inits' = inits + 1
    /\ \E resp \in [organization : BOOLEAN, user : BOOLEAN] :
         LET res == initResult(desc, resp, projectID, fields, schema)
         IN /\ projectID' = res.projectID
            /\ fields' = res.fields
            /\ lastInit' = [organization |-> resp.organization,
                            user |-> resp.user,
                            outcome |-> res.outcome]
            /\ everInit' = (everInit \/ res.outcome = "ok")
            /\ initSince' = IF res.outcome = "ok" \/ initSince = "ok"
                             THEN "ok" ELSE "failed"
    /\ UNCHANGED << remoteVars, ctorVars, inv, prev, calls >>

(***************************************************************************)
(* addToProject(itemID, isPullRequest) in slot s.                          *)
(***************************************************************************)
\* The call is made: lines 198-208.
Begin(s, maxOps) ==
    /\ inv[s].pc = "idle"
    /\ inits + calls < maxOps
    /\ calls' = calls + 1
    /\ \E itemID \in Items, isPullRequest \in BOOLEAN :
         inv' = [inv EXCEPT
                   ![s] = [startCall(itemID, isPullRequest, projectID)
                             EXCEPT !.reinit = initSince]]
    /\ prev' = [prev EXCEPT ![s] = Summary(inv[s])]
    /\ initSince' = "none"
    /\ lastInit' = NoInit
    /\ UNCHANGED << remoteVars, objectVars, initVars >>

\* The first getProjectItem answers.
LookupStep(s) ==
    /\ inv[s].pc = "lookup"
    /\ \E found \in getProjectItem(board, inv[s].itemID) :
         inv' = [inv EXCEPT
                   ![s] = Noting(afterLookup(inv[s], found, fields,
                                             defaultStatus),
                                 schema, defaultStatus)]
    /\ UNCHANGED << remoteVars, objectVars, prev, lastInit, initVars, initSince, calls >>

\* addProjectItem answers.  The remote created a membership record and
\* returned its id, or created it and returned no id; or the item had a
\* record by then and the remote returned that one; or the remote failed.
AddStep(s) ==
    /\ inv[s].pc = "add"
    /\ \/ /\ nextId <= MaxIds
          /\ board' = addProjectItem(board, inv[s].itemID, nextId)
          /\ nextId' = nextId + 1
          /\ \E id \in {nextId, UndefinedID} :
               inv' = [inv EXCEPT ![s] = afterAdd(inv[s], TRUE, id)]
       \/ /\ \E r \in RecordsOf(board, inv[s].itemID) :
               inv' = [inv EXCEPT ![s] = afterAdd(inv[s], TRUE, r.id)]
          /\ UNCHANGED << board, nextId >>
       \/ /\ inv' = [inv EXCEPT ![s] = afterAdd(inv[s], FALSE, UndefinedID)]
          /\ UNCHANGED << board, nextId >>
    /\ UNCHANGED << schema, envOps, objectVars, prev, lastInit, initVars,
                    initSince, calls >>

\* The second getProjectItem answers.
ReLookupStep(s) ==
    /\ inv[s].pc = "relookup"
    /\ \E found \in getProjectItem(board, inv[s].itemID) :
         inv' = [inv EXCEPT
                   ![s] = Noting(afterReLookup(inv[s], found, fields,
                                               defaultStatus),
                                 schema, defaultStatus)]
    /\ UNCHANGED << remoteVars, objectVars, prev, lastInit, initVars, initSince, calls >>

\* UpdateStep that takes the item off the board again when the status
\* update fails.
UpdateStep_RollsBack(s) ==
    /\ inv[s].pc = "update"
    /\ \/ /\ \E r \in board : r.id = inv[s].item
          /\ board' = updateIssueStatus(board, inv[s].item,
                                        inv[s].newStatus.fieldID,
                                        inv[s].newStatus.value.id)
          /\ inv' = [inv EXCEPT ![s] = afterUpdate(inv[s], TRUE)]
       \/ /\ inv' = [inv EXCEPT ![s] = afterUpdate(inv[s], FALSE)]
          /\ board' = { r \in board : r.id # inv[s].item }
    /\ UNCHANGED << schema, nextId, envOps, objectVars, prev, lastInit,
                    initVars, initSince, calls >>

\* UpdateStep that forgets the board (this.projectID, this.fields) when
\* the status update fails.
UpdateStep_ForgetsBoardOnFailure(s) ==
    /\ inv[s].pc = "update"
    /\ \/ /\ \E r \in board : r.id = inv[s].item
          /\ board' = updateIssueStatus(board, inv[s].item,
                                        inv[s].newStatus.fieldID,
                                        inv[s].newStatus.value.id)
          /\ inv' = [inv EXCEPT ![s] = afterUpdate(inv[s], TRUE)]
          /\ UNCHANGED << projectID, fields >>
       \/ /\ inv' = [inv EXCEPT ![s] = afterUpdate(inv[s], FALSE)]
          /\ projectID' = Undefined
          /\ fields' = EmptyFields
          /\ UNCHANGED board
    /\ UNCHANGED << schema, nextId, envOps, ctorVars, prev,
                    lastInit, initVars, initSince, calls >>

\* updateIssueStatus answers: the remote set the value, or failed.
UpdateStep(s) ==
    /\ inv[s].pc = "update"
    /\ \/ /\ \E r \in board : r.id = inv[s].item
          /\ board' = updateIssueStatus(board, inv[s].item,
                                        inv[s].newStatus.fieldID,
                                        inv[s].newStatus.value.id)
          /\ inv' = [inv EXCEPT ![s] = afterUpdate(inv[s], TRUE)]
       \/ /\ inv' = [inv EXCEPT ![s] = afterUpdate(inv[s], FALSE)]
          /\ UNCHANGED board
    /\ UNCHANGED << schema, nextId, envOps, objectVars, prev, lastInit,
                    initVars, initSince, calls >>

(***************************************************************************)
(* Other users of the remote board.                                        *)
(***************************************************************************)
\* The board's fields are edited.  Only init() reads them, and init() is
\* not called during a call, so an edit made during a call is one made
\* right after it; the edits made after the client's last call are left
\* out.
EnvSetSchema ==
    /\ AllIdle
    /\ inits + calls < MaxOps
    /\ \E nodes \in Schemas : nodes # schema /\ schema' = nodes
    /\ UNCHANGED << board, nextId, envOps, objectVars, inv, prev, lastInit,
                    initVars, initSince, calls >>

\* The items of the calls in progress.
ItemsInProgress == { inv[s].itemID : s \in { t \in Slots : inv[t].pc # "idle" } }

\* Somebody else adds an item to the board.  A call reads and writes the
\* membership of its own item only, and only in its steps: a change made
\* to an item between two calls for it is one made before the first step
\* of the later call.
EnvAdd ==
    /\ envOps < MaxEnv
    /\ envOps' = envOps + 1
    /\ nextId <= MaxIds
    /\ \E itemID \in ItemsInProgress :
         /\ RecordsOf(board, itemID) = {}
         /\ board' = addProjectItem(board, itemID, nextId)
    /\ nextId' = nextId + 1
    /\ UNCHANGED << schema, objectVars, inv, prev, lastInit, initVars,
                    initSince, calls >>

\* Somebody else removes an item from the board.
EnvRemove ==
    /\ envOps < MaxEnv
    /\ envOps' = envOps + 1
    /\ \E r \in board : r.item \in ItemsInProgress /\ board' = board \ {r}
    /\ UNCHANGED << schema, nextId, objectVars, inv, prev, lastInit, initVars,
                    initSince, calls >>

(***************************************************************************)
(* Specifications.                                                         *)
(***************************************************************************)
\* The supported use: a client makes one call at a time.  Nobody else
\* changes the board's membership; the board's fields are edited at any
\* moment.
Next ==
    \/ InitCall(MaxOps)
    \/ Begin(1, MaxOps)
    \/ LookupStep(1)
    \/ AddStep(1)
    \/ ReLookupStep(1)
    \/ UpdateStep(1)
    \/ EnvSetSchema

Spec == Init /\ [][Next]_vars

\* The flow of init() and one call, while other users add items to the
\* board and remove items from it at any moment, also between the steps of
\* the call.
NextEnv ==
    \/ InitCall(MaxOpsEnv)
    \/ Begin(1, MaxOpsEnv)
    \/ LookupStep(1)
    \/ AddStep(1)
    \/ ReLookupStep(1)
    \/ UpdateStep(1)
    \/ EnvAdd
    \/ EnvRemove

SpecEnv == Init /\ [][NextEnv]_vars

\* The field index builder on every sequence of raw field entries: init()
\* is called on a board of any schema, and once more.
InitFields == InitWith(FoldSchemas, ProjectURLs, {[issues |-> Done, prs |-> Todo]})

NextFields == InitCall(MaxOpsEnv)

SpecFields == InitFields /\ [][NextFields]_vars

\* init() and calls with status labels among which is the empty string.
InitEmptyLabel == InitWith(SchemasForEmpty, ProjectURLs, ConfigsWithEmpty)

NextEmptyLabel ==
    \/ InitCall(MaxOpsEnv)
    \/ Begin(1, MaxOpsEnv)
    \/ LookupStep(1)
    \/ AddStep(1)
    \/ ReLookupStep(1)
    \/ UpdateStep(1)

SpecEmptyLabel == InitEmptyLabel /\ [][NextEmptyLabel]_vars

\* Two calls for the same item that overlap: the second is made while the
\* first is in progress, and their steps interleave.
BeginFirst == calls = 0 /\ Begin(1, MaxOps)

BeginSecond ==
    /\ inv[1].pc # "idle"
    /\ Begin(2, MaxOps)
    /\ inv'[2].itemID = inv[1].itemID

NextOverlap ==
    \/ InitCall(MaxOps)
    \/ BeginFirst
    \/ BeginSecond
    \/ LookupStep(1)
    \/ LookupStep(2)
    \/ AddStep(1)
    \/ AddStep(2)
    \/ ReLookupStep(1)
    \/ ReLookupStep(2)
    \/ UpdateStep(1)
    \/ UpdateStep(2)

SpecOverlap == Init /\ [][NextOverlap]_vars

\* parseURL on every url.
NextURL == Construct

SpecURL == InitURL /\ [][NextURL]_vars

(***************************************************************************)
(* Properties.                                                             *)
(***************************************************************************)
\* The call in slot s has returned or thrown.
Completed(s) == inv[s].pc = "idle" /\ inv[s].outcome # "none"

\* The call in slot s got past the check of this.projectID.
Ran(s) == inv[s].itemID # NoCall /\ inv[s].outcome # "NotInitialized"

\* The errors of the steps that establish membership.
MembershipErrors ==
    { "AddFailed", "AddReturnedNoID", "MembershipNotFoundAfterAdd",
      "MembershipIDMismatch" }

\* The item has the membership record `id` on the board.
MemberAs(itemID, id) ==
    \E r \in board : r.item = itemID /\ r.id = id

(* C1, as claimed: a call that fails with MissingStatusField has issued    *)
(* neither the add mutation nor the set-field-value mutation.              *)
C1_NoMutationBeforeMissingStatusField ==
    \A s \in Slots :
        inv[s].outcome = "MissingStatusField"
            => inv[s].nAdd = 0 /\ inv[s].nSet = 0

(* C1, amended: when the field index has no "Status" field, a call never   *)
(* issues the set-field-value mutation and never succeeds; once the item's *)
(* membership is established it fails with MissingStatusField.  The add    *)
(* mutation is not issued when the first lookup found the item on the      *)
(* board, and has been issued once, before the failure, when it did not.   *)
C1_MissingStatusFieldAfterMembership ==
    \A s \in Slots :
        (Ran(s) /\ "Status" \notin DOMAIN fields) =>
            /\ inv[s].nSet = 0
            /\ inv[s].pc # "update"
            /\ Completed(s) =>
                 /\ inv[s].outcome \in MembershipErrors \cup {"MissingStatusField"}
                 /\ inv[s].wasMember =>
                      inv[s].outcome = "MissingStatusField" /\ inv[s].nAdd = 0
                 /\ (inv[s].outcome = "MissingStatusField" /\ ~inv[s].wasMember)
                      => inv[s].nAdd = 1 /\ inv[s].item = inv[s].prjItemID

\* A call for an item that was not on the board has added it and then
\* failed with MissingStatusField.
C1_Witness ==
    \E s \in Slots :
        /\ Completed(s)
        /\ "Status" \notin DOMAIN fields
        /\ inv[s].outcome = "MissingStatusField"
        /\ ~inv[s].wasMember
        /\ inv[s].nAdd = 1
        /\ MemberAs(inv[s].itemID, inv[s].prjItemID)

\* The errors in which the remote board's membership operations, not the
\* status resolution, end a call.
RemoteErrors == MembershipErrors \cup {"StatusUpdateFailed"}

\* The call in slot s is a retry, without init() in between, of a call for
\* an item of the same kind that failed with StatusValueNotFound.
RetryOfStatusValueNotFound(s) ==
    /\ Ran(s)
    /\ prev[s].outcome = "StatusValueNotFound"
    /\ prev[s].isPullRequest = inv[s].isPullRequest
    /\ inv[s].reinit # "ok"

(* C2, as claimed: a call failed with StatusValueNotFound, the option was  *)
(* then added on the remote board, and the retry, made without calling     *)
(* init() again, succeeds (unless a remote operation of the retry fails).  *)
C2_RetrySucceedsWithoutReinit ==
    \A s \in Slots :
        ( /\ RetryOfStatusValueNotFound(s)
          /\ Completed(s)
          /\ ~prev[s].remoteHad
          /\ RemoteResolves(schema, LabelFor(defaultStatus,
                                             inv[s].isPullRequest))
          /\ inv[s].outcome \notin RemoteErrors )
        => inv[s].outcome = "ok"

\* The retry never sets a status: it ends as the first call did, or in an
\* error of the membership steps.
RetryStillFails ==
    \A s \in Slots :
        RetryOfStatusValueNotFound(s) =>
            /\ inv[s].nSet = 0
            /\ Completed(s) =>
                 inv[s].outcome \in MembershipErrors \cup {"StatusValueNotFound"}

\* A successful init() brings the options of the board's Status field into
\* the field index: every label the fetched schema has an option for is
\* resolved afterwards.
ReinitPicksUpOptions ==
    (inits' = inits + 1 /\ lastInit'.outcome = "ok") =>
        \A label \in Labels :
            RemoteResolves(schema, label) =>
                getStatusField(fields', label).kind = "found"

(* C2, amended: the field index is the one the last successful init()      *)
(* built, so after a call failed with StatusValueNotFound a retry of an    *)
(* item of the same kind without init() fails again, whatever was added to *)
(* the remote board; the added option is resolved only after init() has    *)
(* been called again and succeeded.                                        *)
C2_RetryNeedsReinit ==
    /\ []RetryStillFails
    /\ [][ReinitPicksUpOptions]_vars

\* The option was missing remotely at the first call and is there at the
\* retry, which fails with StatusValueNotFound all the same.
C2_Witness ==
    \E s \in Slots :
        /\ RetryOfStatusValueNotFound(s)
        /\ Completed(s)
        /\ ~prev[s].remoteHad
        /\ inv[s].remoteHad
        /\ inv[s].outcome = "StatusValueNotFound"

\* Two calls in sequence for the same issue, both successful, the first of
\* them for an item that was not on the board.
TwiceInSequence(s) ==
    /\ Completed(s)
    /\ inv[s].outcome = "ok"
    /\ prev[s].outcome = "ok"
    /\ inv[s].itemID = prev[s].itemID
    /\ ~inv[s].isPullRequest
    /\ ~prev[s].isPullRequest
    /\ ~prev[s].wasMember

(* C3: addToProject(x, false) twice in sequence, nothing else changing the *)
(* board's membership: both calls return the same board-item id, and one   *)
(* add mutation is issued in all, by the first call; the second finds the  *)
(* item on the board.                                                      *)
C3_Idempotent ==
    \A s \in Slots :
        TwiceInSequence(s) =>
            /\ inv[s].ret = prev[s].ret
            /\ inv[s].ret # UndefinedID
            /\ prev[s].nAdd + inv[s].nAdd = 1
            /\ prev[s].nAdd = 1
            /\ inv[s].wasMember

C3_Witness ==
    \E s \in Slots :
        /\ TwiceInSequence(s)
        /\ inv[s].ret = prev[s].ret
        /\ MemberAs(inv[s].itemID, inv[s].ret)

(* C4: when the add mutation returned id A and the second lookup returned  *)
(* an id B other than A, the call fails with MembershipIDMismatch and has  *)
(* issued no set-field-value mutation.                                     *)
C4_MismatchIsFatal ==
    \A s \in Slots :
        ( /\ inv[s].nLookup = 2
          /\ inv[s].pc # "relookup"
          /\ inv[s].prjItemID # UndefinedID
          /\ inv[s].item # UndefinedID
          /\ inv[s].item # inv[s].prjItemID )
        => /\ Completed(s)
           /\ inv[s].outcome = "MembershipIDMismatch"
           /\ inv[s].nSet = 0

\* Between the add and the second lookup the item was taken off the board
\* and put on it again, under another id.
C4_Witness ==
    \E s \in Slots :
        /\ inv[s].outcome = "MembershipIDMismatch"
        /\ inv[s].nAdd = 1
        /\ inv[s].item # inv[s].prjItemID
        /\ MemberAs(inv[s].itemID, inv[s].item)
        /\ ~MemberAs(inv[s].itemID, inv[s].prjItemID)

\* `id` is the id of the first option, in declared order, that matches the
\* label.
IsFirstMatch(options, label, id) ==
    \E i \in 1..Len(options) :
        /\ options[i].id = id
        /\ Matches(options[i], label)
        /\ \A j \in 1..(i - 1) : ~Matches(options[j], label)

\* The set-field-value mutation of the call in slot s carries the Status
\* field's id and the option for the label of the item's kind.
SetsDesiredStatus(s) ==
    /\ "Status" \in DOMAIN fields
    /\ inv[s].newStatus.kind = "found"
    /\ inv[s].newStatus.fieldID = fields["Status"].id
    /\ IsFirstMatch(fields["Status"].options,
                    LabelFor(defaultStatus, inv[s].isPullRequest),
                    inv[s].newStatus.value.id)

(* C5: a successful call for an item that was not on the board has issued  *)
(* the add mutation once and the set-field-value mutation once, the latter *)
(* with the Status field's id and the id of the option resolved from       *)
(* defaultStatus.prs for a pull request and defaultStatus.issues           *)
(* otherwise, and returns the id the add mutation produced.                *)
C5_AddThenSetOnce ==
    \A s \in Slots :
        ( /\ Completed(s)
          /\ inv[s].outcome = "ok"
          /\ ~inv[s].wasMember
          /\ initSince = "none" )
        => /\ inv[s].nAdd = 1
           /\ inv[s].nSet = 1
           /\ SetsDesiredStatus(s)
           /\ inv[s].prjItemID # UndefinedID
           /\ inv[s].ret = inv[s].prjItemID

\* A pull request and an issue get different options, and a pull request
\* that was not on the board has been added with its own.
C5_Witness ==
    \E s \in Slots :
        /\ Completed(s)
        /\ inv[s].outcome = "ok"
        /\ ~inv[s].wasMember
        /\ inv[s].isPullRequest
        /\ initSince = "none"
        /\ inv[s].nAdd = 1
        /\ inv[s].nSet = 1
        /\ inv[s].ret = inv[s].prjItemID
        /\ getStatusField(fields, defaultStatus.issues).kind = "found"
        /\ getStatusField(fields, defaultStatus.issues).value.id
             # inv[s].newStatus.value.id

(* C6: a call made while no init() has completed successfully (none was    *)
(* made, or every one failed with BoardNotFound) fails with NotInitialized *)
(* and issues no lookup, no add and no set-field-value.                    *)
C6_NotInitialized ==
    \A s \in Slots :
        (inv[s].itemID # NoCall /\ ~everInit)
        => /\ Completed(s)
           /\ inv[s].outcome = "NotInitialized"
           /\ inv[s].nLookup = 0
           /\ inv[s].nAdd = 0
           /\ inv[s].nSet = 0

\* init() was called and failed, and the call made after it was refused.
C6_Witness ==
    \E s \in Slots :
        /\ inits > 0
        /\ ~everInit
        /\ inv[s].itemID # NoCall
        /\ inv[s].outcome = "NotInitialized"

\* No item has two membership records.
NoDuplicateMembership ==
    \A itemID \in Items : Cardinality(RecordsOf(board, itemID)) <= 1

\* The item of the successful call in slot s is on the board under the id
\* the call returned, with the Status the call resolved for its kind.
Converged(s) ==
    /\ SetsDesiredStatus(s)
    /\ \E r \in board :
         /\ r.item = inv[s].itemID
         /\ r.id = inv[s].ret
         /\ r.status = [field |-> fields["Status"].id,
                        option |-> inv[s].newStatus.value.id]

(* C7: over calls made one after the other, successful or failed, no item  *)
(* ever has more than one membership record, and after every successful    *)
(* call the item is a member whose Status is the option resolved from the  *)
(* default label for its kind.                                             *)
C7_ConvergesWithoutDuplicates ==
    /\ NoDuplicateMembership
    /\ \A s \in Slots :
         (Completed(s) /\ inv[s].outcome = "ok" /\ initSince = "none")
            => Converged(s)

\* A second successful call for an item already on the board.
C7_Witness ==
    \E s \in Slots :
        /\ Completed(s)
        /\ inv[s].outcome = "ok"
        /\ inv[s].wasMember
        /\ prev[s].outcome # "none"
        /\ Converged(s)
        /\ Cardinality(RecordsOf(board, inv[s].itemID)) = 1

(* C8: no step of an addToProject() call, failing or not, changes          *)
(* this.projectID or this.fields.                                          *)
C8_CallsKeepBoardIdentityAndIndex ==
    [][ (calls' # calls \/ inv' # inv)
            => (projectID' = projectID /\ fields' = fields) ]_vars

\* A call has failed at its last step on an initialized object, whose
\* projectID and field index are still there.
C8_Witness ==
    \E s \in Slots :
        /\ Completed(s)
        /\ inv[s].outcome = "StatusUpdateFailed"
        /\ initSince = "none"
        /\ projectID = BoardID
        /\ "Status" \in DOMAIN fields

\* After the add succeeded and the status update failed: nothing more was
\* issued, and the item is on the board with no Status.
LeftAsMemberWithoutStatus ==
    \A s \in Slots :
        (Completed(s) /\ inv[s].outcome = "StatusUpdateFailed"
                      /\ inv[s].nAdd = 1)
        => /\ inv[s].nLookup = 2
           /\ inv[s].nSet = 1
           /\ \E r \in board :
                /\ r.item = inv[s].itemID
                /\ r.id = inv[s].prjItemID
                /\ r.status = NoStatus

\* The status update of a call that added the item has answered without
\* having set the value: the call ends with StatusUpdateFailed.
FailedUpdateIsReported ==
    \A s \in Slots :
        ( /\ inv[s].pc = "update"
          /\ inv[s].nAdd = 1
          /\ inv'[s].pc = "idle"
          /\ board' = board )
        => inv'[s].outcome = "StatusUpdateFailed"

(* C9: when the add mutation succeeded and the set-field-value mutation    *)
(* then fails, the call fails with StatusUpdateFailed, issues nothing to   *)
(* undo the add, and the item stays on the board without the status.       *)
C9_NoRollback ==
    /\ []LeftAsMemberWithoutStatus
    /\ [][FailedUpdateIsReported]_vars

C9_Witness ==
    \E s \in Slots :
        /\ Completed(s)
        /\ inv[s].outcome = "StatusUpdateFailed"
        /\ inv[s].nAdd = 1
        /\ MemberAs(inv[s].itemID, inv[s].prjItemID)

\* The branch of the response that init() reads is absent.
SelectedBranchAbsent(d, resp) ==
    \/ d.isOrg /\ ~resp.organization
    \/ ~d.isOrg /\ ~resp.user

(* C10: init() fails with BoardNotFound whenever the branch of the         *)
(* response selected by desc.isOrg is absent, whether or not the other     *)
(* branch is present, and then leaves this.projectID and this.fields as    *)
(* they were.                                                              *)
C10_BoardNotFound ==
    [][ (inits' = inits + 1 /\ SelectedBranchAbsent(desc, lastInit'))
            => /\ lastInit'.outcome = "BoardNotFound"
               /\ projectID' = projectID
               /\ fields' = fields ]_vars

\* init() has just failed on a response that carries the other branch
\* only.
C10_Witness ==
    /\ lastInit.outcome = "BoardNotFound"
    /\ SelectedBranchAbsent(desc, lastInit)
    /\ lastInit.organization # lastInit.user
    /\ projectID = Undefined
    /\ fields = EmptyFields
    /\ schema # << >>

\* The positions of the entries that carry an id.
WithId(entries) == { i \in 1..Len(entries) : entries[i].id # Undefined }

\* The keys of f are the names of the entries that carry an id, and f holds,
\* for each name, the last of these entries with that name.
IndexIsFoldOf(f, entries) ==
    /\ DOMAIN f = { entries[i].name : i \in WithId(entries) }
    /\ \A n \in DOMAIN f :
         \E i \in WithId(entries) :
            /\ entries[i].name = n
            /\ f[n] = entries[i]
            /\ \A j \in WithId(entries) : entries[j].name = n => j <= i

(* C11: for any sequence of raw field entries, the field index that        *)
(* initFields builds (from the empty index the constructor leaves) has as  *)
(* keys exactly the names of the entries that carry an id, and holds for   *)
(* each name the last such entry; from the empty sequence it builds the    *)
(* empty index.                                                            *)
C11_IndexIsFold ==
    [][ (inits' = inits + 1 /\ lastInit'.outcome = "ok" /\ fields = EmptyFields)
            => /\ IndexIsFoldOf(fields', schema)
               /\ schema = << >> => fields' = EmptyFields ]_vars

\* The index built from two entries of one name, under different ids, with
\* an entry without id, of another name, between them.
C11_Witness ==
    /\ inits = 1
    /\ lastInit.outcome = "ok"
    /\ Len(schema) = 3
    /\ schema[1].name = schema[3].name
    /\ schema[1].id \notin {Undefined, schema[3].id}
    /\ schema[3].id # Undefined
    /\ schema[2].id = Undefined
    /\ DOMAIN fields = {schema[3].name}
    /\ schema[2].name \notin DOMAIN fields
    /\ fields[schema[3].name] = schema[3]

\* Some option matches the label.
SomeMatch(options, label) ==
    \E i \in 1..Len(options) : Matches(options[i], label)

\* What the resolver answers for the label on the index f, which has a
\* Status field: "not found" exactly when no option matches, and otherwise
\* the Status field's id with the first option that matches.
ResolvesFirstMatch(f, label) ==
    LET r == getStatusField(f, label)
    IN /\ r.kind \in {"found", "undefined"}
       /\ r.kind = "undefined" <=> ~SomeMatch(f["Status"].options, label)
       /\ r.kind = "found" =>
            /\ r.fieldID = f["Status"].id
            /\ IsFirstMatch(f["Status"].options, label, r.value.id)
            /\ \E i \in 1..Len(f["Status"].options) :
                  /\ f["Status"].options[i].id = r.value.id
                  /\ f["Status"].options[i].name = r.value.value

\* The call in slot s has established the item's membership: it is at the
\* status update, or has ended otherwise than in a membership step.
MembershipEstablished(s) ==
    /\ Ran(s)
    /\ inv[s].pc \in {"update", "idle"}
    /\ inv[s].outcome \notin MembershipErrors

(* C12: on a field index that has a "Status" field, the status resolver    *)
(* returns the first option, in declared order, whose name contains the    *)
(* label ignoring case, with the Status field's id, and returns "not       *)
(* found" exactly when no option's name contains the label; the call then  *)
(* fails with StatusValueNotFound and issues no set-field-value mutation.  *)
C12_FirstMatchOrNotFound ==
    "Status" \in DOMAIN fields =>
        /\ \A label \in Labels : ResolvesFirstMatch(fields, label)
        /\ \A s \in Slots :
             (MembershipEstablished(s) /\ initSince = "none") =>
                LET label == LabelFor(defaultStatus, inv[s].isPullRequest)
                IN IF SomeMatch(fields["Status"].options, label)
                   THEN /\ inv[s].outcome # "StatusValueNotFound"
                        /\ inv[s].nSet = 1
                        /\ SetsDesiredStatus(s)
                   ELSE /\ inv[s].outcome = "StatusValueNotFound"
                        /\ inv[s].nSet = 0
                        /\ inv[s].pc = "idle"

\* Two options match the label and the call has set the first of them.
C12_Witness ==
    \E s \in Slots :
        /\ Completed(s)
        /\ inv[s].outcome = "ok"
        /\ initSince = "none"
        /\ "Status" \in DOMAIN fields
        /\ Len(fields["Status"].options) = 2
        /\ \A i \in 1..2 :
              Matches(fields["Status"].options[i],
                      LabelFor(defaultStatus, inv[s].isPullRequest))
        /\ inv[s].newStatus.value.id = fields["Status"].options[1].id
        /\ \E r \in board :
              /\ r.id = inv[s].ret
              /\ r.status.option = fields["Status"].options[1].id
        /\ \E label \in Labels : ~Matches(fields["Status"].options[1], label)

\* The occurrences of /(orgs|users)/<owner>/projects/<number> in u that
\* begin at position k with the keyword t, each with its three parts: k, a
\* and p are the positions of the slashes before the keyword, the owner
\* and "projects", e is the position of the last digit.
OccurrencesAt(u, k, t) ==
    LET a == k + Len(t) + 1
    IN IF a > Len(u) THEN {}
       ELSE IF SubSeq(u, k, a) # <<"/">> \o t \o <<"/">> THEN {}
       ELSE { [type |-> t,
               owner |-> SubSeq(u, a + 1, pe[1] - 1),
               digits |-> SubSeq(u, pe[1] + Len(LitProjects), pe[2])] :
                pe \in { r \in ((a + 2)..Len(u)) \X (1..Len(u)) :
                    /\ r[1] + Len(LitProjects) <= r[2]
                    /\ \A j \in (a + 1)..(r[1] - 1) : u[j] # "/"
                    /\ SubSeq(u, r[1], r[1] + Len(LitProjects) - 1) = LitProjects
                    /\ \A j \in (r[1] + Len(LitProjects))..r[2] : IsDigit(u[j])
                    /\ r[2] = Len(u) \/ ~IsDigit(u[r[2] + 1]) } }

Occurrences(u) ==
    UNION { OccurrencesAt(u, k, t) : k \in 1..Len(u), t \in {LitOrgs, LitUsers} }

\* The decimal numeral of n, and a numeral without its leading zeros.
RECURSIVE Decimal(_)
Decimal(n) ==
    LET last == CHOOSE c \in {"0", "1", "2", "3", "4", "5", "6", "7", "8", "9"} :
                    DigitVal(c) = n % 10
    IN IF n < 10 THEN <<last>> ELSE Decimal(n \div 10) \o <<last>>

RECURSIVE StripZeros(_)
StripZeros(ds) ==
    IF Len(ds) > 1 /\ Head(ds) = "0" THEN StripZeros(Tail(ds)) ELSE ds

\* Urls that name no number, and urls whose keyword is not orgs or users.
MissingNumberURLs ==
    { p \o k \o <<"/", "a">> \o m \o n :
        p \in UrlPrefixes, k \in {<<"/">> \o LitOrgs, <<"/">> \o LitUsers},
        m \in {LitProjects, SubSeq(LitProjects, 1, Len(LitProjects) - 1)},
        n \in {<< >>, <<"x">>} }
WrongKeywordURLs ==
    { p \o k \o o \o LitProjects \o <<"7">> :
        p \in UrlPrefixes,
        k \in UrlKeywords \ {<<"/">> \o LitOrgs, <<"/">> \o LitUsers},
        o \in UrlOwners }

(* C13: parseURL returns a ProjectDesc for every url that contains         *)
(* /(orgs|users)/<owner>/projects/<number>, with isOrg true iff the        *)
(* keyword of the occurrence it took is "orgs" and with the owner and the  *)
(* number of that same occurrence; it throws the invalid-url Error for     *)
(* every url that does not contain the pattern, in particular when the     *)
(* number is missing or the keyword is neither orgs nor users.             *)
C13_ParseURL ==
    parsed # NotParsed =>
        /\ IF Occurrences(url) = {}
           THEN parsed.kind = "throw"
           ELSE /\ parsed.kind = "ok"
                /\ desc = parsed.desc
                /\ \E o \in Occurrences(url) :
                      /\ parsed.desc.isOrg <=> o.type = LitOrgs
                      /\ parsed.desc.owner = o.owner
                      /\ Decimal(parsed.desc.projectNumber) = StripZeros(o.digits)
        /\ url \in MissingNumberURLs \cup WrongKeywordURLs
              => parsed.kind = "throw"

\* A user's board, the pattern found after the host part of the url.
C13_Witness ==
    /\ url \in URLs
    /\ url[1] = "h"
    /\ parsed.kind = "ok"
    /\ ~parsed.desc.isOrg
    /\ parsed.desc.projectNumber = 12
    /\ parsed.desc.owner = <<"a">>
    /\ Cardinality(Occurrences(url)) = 1

(* C14: when the first lookup finds the item on the board, the call issues *)
(* no add mutation and no second lookup, sets the status on the board item *)
(* whose id that lookup returned, and returns that id.                     *)
C14_AlreadyMember ==
    \A s \in Slots :
        (Ran(s) /\ inv[s].wasMember) =>
            /\ inv[s].nAdd = 0
            /\ inv[s].nLookup = 1
            /\ inv[s].pc \in {"update", "idle"}
            /\ inv[s].prjItemID = UndefinedID
            /\ MemberAs(inv[s].itemID, inv[s].item)
            /\ (Completed(s) /\ inv[s].outcome = "ok") =>
                 /\ inv[s].nSet = 1
                 /\ inv[s].ret = inv[s].item
                 /\ \E r \in board :
                      /\ r.id = inv[s].item
                      /\ r.item = inv[s].itemID
                      /\ r.status = [field |-> inv[s].newStatus.fieldID,
                                     option |-> inv[s].newStatus.value.id]

\* The item was left on the board, without status, by a call whose status
\* update failed; the next call for it has found it and set its status.
C14_Witness ==
    \E s \in Slots :
        /\ Completed(s)
        /\ inv[s].outcome = "ok"
        /\ inv[s].wasMember
        /\ prev[s].outcome = "StatusUpdateFailed"
        /\ prev[s].itemID = inv[s].itemID
        /\ prev[s].nAdd = 1
        /\ inv[s].nAdd = 0
        /\ inv[s].nLookup = 1
        /\ inv[s].ret = inv[s].item
        /\ \E r \in board : r.id = inv[s].ret /\ r.status # NoStatus

\* The errors of a call that got past the check of this.projectID.
Failures ==
    MembershipErrors \cup
        {"MissingStatusField", "StatusValueNotFound", "StatusUpdateFailed"}

\* The remote operations a call has issued when it ends in each error.
OpsAtFailure(c) ==
    CASE c.outcome \in {"AddFailed", "AddReturnedNoID"} ->
            c.nLookup = 1 /\ c.nAdd = 1 /\ c.nSet = 0
      [] c.outcome \in {"MembershipNotFoundAfterAdd", "MembershipIDMismatch"} ->
            c.nLookup = 2 /\ c.nAdd = 1 /\ c.nSet = 0
      [] c.outcome \in {"MissingStatusField", "StatusValueNotFound"} ->
            c.nLookup = 1 + c.nAdd /\ c.nSet = 0
      [] c.outcome = "StatusUpdateFailed" ->
            c.nLookup = 1 + c.nAdd /\ c.nSet = 1
      [] OTHER -> TRUE

\* A call issues at most two lookups, one add and one set-field-value, and
\* a call that has failed is over.
FailureEndsCall ==
    \A s \in Slots :
        /\ inv[s].nLookup <= 2
        /\ inv[s].nAdd <= 1
        /\ inv[s].nSet <= 1
        /\ inv[s].outcome \in Failures =>
              inv[s].pc = "idle" /\ OpsAtFailure(inv[s])

\* As long as no new call is made, a call that has failed does nothing
\* more.
FailedCallIssuesNothing ==
    \A s \in Slots :
        (inv[s].outcome \in Failures /\ calls' = calls) => inv'[s] = inv[s]

(* C15: every failure of a step of addToProject ends the call: the call    *)
(* issues no remote operation after it and repeats none, so that one call  *)
(* issues at most two lookups, one add mutation and one set-field-value    *)
(* mutation.                                                               *)
C15_FailuresAreTerminal ==
    /\ []FailureEndsCall
    /\ [][FailedCallIssuesNothing]_vars

\* The add mutation put the item on the board and returned no id: the call
\* is over after one lookup and one add.
C15_Witness ==
    \E s \in Slots :
        /\ inv[s].outcome = "AddReturnedNoID"
        /\ inv[s].pc = "idle"
        /\ inv[s].nLookup = 1
        /\ inv[s].nAdd = 1
        /\ inv[s].nSet = 0
        /\ RecordsOf(board, inv[s].itemID) # {}

(* C16: after every successful init(), also a second or later one on the   *)
(* same object, the field index holds exactly the fields (with an id) of   *)
(* the schema that call fetched; no name absent from that schema is left   *)
(* in it from an earlier init().                                           *)
C16_IndexIsLatestSchema ==
    [][ (inits' = inits + 1 /\ lastInit'.outcome = "ok")
            => IndexIsFoldOf(fields', schema) ]_vars

(* C17: the label is resolved only once the item's membership is           *)
(* established: when a call for an item that was not on the board fails    *)
(* with StatusValueNotFound, the add mutation has been applied, and the    *)
(* item is on the board, under the id the add returned, with no status.    *)
C17_StatusValueNotFoundAfterAdd ==
    \A s \in Slots :
        /\ inv[s].newStatus # NoNewStatus => MembershipEstablished(s)
        /\ (inv[s].outcome = "StatusValueNotFound" /\ ~inv[s].wasMember) =>
             /\ inv[s].nAdd = 1
             /\ inv[s].nLookup = 2
             /\ inv[s].nSet = 0
             /\ inv[s].item = inv[s].prjItemID
             /\ \E r \in board :
                  /\ r.item = inv[s].itemID
                  /\ r.id = inv[s].prjItemID
                  /\ r.status = NoStatus

\* The index has a Status field without an option for the label, and the
\* call has left the item on the board.
C17_Witness ==
    \E s \in Slots :
        /\ Completed(s)
        /\ inv[s].outcome = "StatusValueNotFound"
        /\ ~inv[s].wasMember
        /\ initSince = "none"
        /\ "Status" \in DOMAIN fields
        /\ ~SomeMatch(fields["Status"].options,
                      LabelFor(defaultStatus, inv[s].isPullRequest))
        /\ RecordsOf(board, inv[s].itemID)
             = { [id |-> inv[s].prjItemID, item |-> inv[s].itemID,
                  status |-> NoStatus] }

(* C18: when the label for the item's kind is the empty string and the     *)
(* Status field has at least one option, the resolver does not answer "not *)
(* found" but the first declared option, and the call sets that option;    *)
(* when the Status field has no option, the resolver answers "not found"   *)
(* for every label.                                                        *)
C18_EmptyLabelTakesFirstOption ==
    "Status" \in DOMAIN fields =>
        LET options == fields["Status"].options
            r == getStatusField(fields, << >>)
        IN /\ options # << >> =>
                /\ r.kind = "found"
                /\ r.fieldID = fields["Status"].id
                /\ r.value.id = options[1].id
           /\ options = << >> =>
                \A label \in LabelsWithEmpty \cup Labels :
                    getStatusField(fields, label).kind = "undefined"
           /\ \A s \in Slots :
                MembershipEstablished(s) =>
                    /\ ( /\ LabelFor(defaultStatus, inv[s].isPullRequest) = << >>
                         /\ options # << >> ) =>
                            /\ inv[s].outcome # "StatusValueNotFound"
                            /\ inv[s].nSet = 1
                            /\ inv[s].newStatus.value.id = options[1].id
                            /\ inv[s].outcome = "ok" =>
                                 \E m \in board :
                                    /\ m.id = inv[s].ret
                                    /\ m.item = inv[s].itemID
                                    /\ m.status = [field |-> fields["Status"].id,
                                                   option |-> options[1].id]
                    /\ options = << >> =>
                            /\ inv[s].outcome = "StatusValueNotFound"
                            /\ inv[s].nSet = 0

\* A call with the empty label on a board with two options has set the
\* first one, which the other label of the configuration does not match.
C18_Witness ==
    \E s \in Slots :
        /\ Completed(s)
        /\ inv[s].outcome = "ok"
        /\ LabelFor(defaultStatus, inv[s].isPullRequest) = << >>
        /\ "Status" \in DOMAIN fields
        /\ Len(fields["Status"].options) = 2
        /\ \E m \in board :
              /\ m.id = inv[s].ret
              /\ m.status.option = fields["Status"].options[1].id
        /\ \E label \in LabelsWithEmpty :
              ~Matches(fields["Status"].options[1], label)

\* The calls in slots s and t are two calls for the same item, the second
\* made while the first was in progress.
Overlapping(s, t) ==
    /\ s # t
    /\ Ran(s) /\ Ran(t)
    /\ inv[s].itemID = inv[t].itemID

(* C19, as claimed: when two calls for the same item overlap, one add      *)
(* mutation at most is issued for the item by the two together, and        *)
(* neither fails with MembershipIDMismatch or MembershipNotFoundAfterAdd.  *)
C19_OverlapIssuesOneAdd ==
    \A s \in Slots, t \in Slots :
        Overlapping(s, t) =>
            /\ inv[s].nAdd + inv[t].nAdd <= 1
            /\ inv[s].outcome \notin
                  {"MembershipIDMismatch", "MembershipNotFoundAfterAdd"}

(* C19, amended: when two calls for the same item overlap, each issues at  *)
(* most one add mutation, and each of them whose first lookup answered     *)
(* before the item was on the board issues one, so that two are issued in  *)
(* all when both did; neither fails with MembershipNotFoundAfterAdd; one   *)
(* fails with MembershipIDMismatch only when its second lookup returned    *)
(* the id of another record of the item than the one its add returned.     *)
C19_OverlapAddsOncePerCall ==
    \A s \in Slots, t \in Slots :
        Overlapping(s, t) =>
            /\ inv[s].nAdd <= 1
            /\ inv[s].nAdd + inv[t].nAdd <= 2
            /\ (inv[s].pc \notin {"lookup"} /\ ~inv[s].wasMember)
                  => inv[s].nAdd = 1
            /\ inv[s].wasMember => inv[s].nAdd = 0
            /\ inv[s].outcome # "MembershipNotFoundAfterAdd"
            /\ inv[s].outcome = "MembershipIDMismatch" =>
                  /\ inv[s].prjItemID # UndefinedID
                  /\ inv[s].item \notin {UndefinedID, inv[s].prjItemID}
                  /\ MemberAs(inv[s].itemID, inv[s].item)
                  /\ MemberAs(inv[s].itemID, inv[s].prjItemID)

\* Both calls found the item absent and both added it; one of them then
\* read the other's record and failed.
C19_Witness ==
    \E s \in Slots, t \in Slots :
        /\ Overlapping(s, t)
        /\ inv[s].nAdd = 1
        /\ inv[t].nAdd = 1
        /\ inv[s].outcome = "MembershipIDMismatch"
        /\ Cardinality(RecordsOf(board, inv[s].itemID)) = 2

====
